---- MODULE Spec2Model ----
(***************************************************************************)
(* Model of backend/hos_app/hos_engine.py: HOSEngine.calculate_trip and    *)
(* the day loop of HOSEngine._generate_daily_schedule.                     *)
(*                                                                         *)
(* Time is counted in ticks of 1/H hour (H = 300, 12 seconds).  One tick   *)
(* divides both the minute (one mile of driving at AVG_SPEED_MPH = 60) and *)
(* the hundredth of an hour (the resolution of round(x, 2)), so every      *)
(* quantity the engine computes from an integer mileage and a cycle usage  *)
(* on the tick grid is an integer and the arithmetic is exact.  Distances  *)
(* are counted in the distance driven in one tick (1/5 mile).              *)
(*                                                                         *)
(* The engine computes in binary floating point; the model evaluates the   *)
(* same expressions and comparisons exactly.  The two differ only where a  *)
(* comparison is between values that are equal in exact arithmetic (a      *)
(* drive_duration of exactly 0.1 hour, for instance), where the rounding   *)
(* error of the floats decides.                                            *)
(***************************************************************************)
EXTENDS Integers, Sequences, FiniteSets, TLC

\* ---------------------------------------------------------------- constants
MAX_DRIVING_HOURS == 11
MAX_ON_DUTY_HOURS == 14
REQUIRED_BREAK_AFTER_HOURS == 8
MAX_CYCLE_HOURS == 70
RESET_OFF_DUTY_HOURS == 10
RESTART_OFF_DUTY_HOURS == 34
AVG_SPEED_MPH == 60
FUEL_STOP_MILES == 1000

\* ticks per hour: 5 ticks per minute of driving (one mile)
H == 5 * AVG_SPEED_MPH
\* distance units per mile (distance driven in one tick is one unit)
MileUnits == H \div AVG_SPEED_MPH

REQUIRED_BREAK_DURATION == H \div 2
FUEL_STOP_DURATION == H \div 2
PICKUP_DURATION == 1 * H
DROPOFF_DURATION == 1 * H
\* segments of up to four hours
MaxSegmentFour == 4 * H
\* the 2.0 of "Max 2-hour segments for readability"
MaxSegment == 2 * H
\* the 0.1 of "if drive_duration < 0.1"
Epsilon == H \div 10
\* the hour of day the clock starts at (replace(hour=6, ...))
StartHour == 6

\* ------------------------------------------------------------------- bounds
\* the day loop is followed for at most MaxDays DayLogs
MaxDays == 12
\* mileages 0..MaxSmallMiles, and MilesStep * (1..MaxMilesSteps)
MaxSmallMiles == 8
MilesStep == 259
MaxMilesSteps == 18
\* cycle usages on a grid of CycleStep ticks within [0, MAX_CYCLE_HOURS]
CycleStep == 210
\* calculate_trip is called at most MaxCalls times on one engine
MaxCalls == 2

\* the mileages and cycle usages of the scenarios of the specification, a
\* mileage that leaves less than Epsilon after a full segment (121) and the
\* mileage of exactly MAX_DRIVING_HOURS of driving (660); cycle usages that
\* are not a whole number of hundredths of an hour (15.1233... and 68.1666...)
ScenarioMiles == {100, 121, 300, 660, 2000}
ScenarioCycle == {0, 68 * H, 15 * H + 37, 68 * H + 50}

MilesInputs ==
    (0..MaxSmallMiles) \cup {MilesStep * k : k \in 1..MaxMilesSteps} \cup ScenarioMiles

CycleInputs ==
    {CycleStep * k : k \in 0..((MAX_CYCLE_HOURS * H) \div CycleStep)} \cup ScenarioCycle

\* ------------------------------------------------------------------ helpers
Min(S) == CHOOSE x \in S : \A y \in S : x <= y

\* round(x, 2) on a duration in ticks: the nearest hundredth of an hour
\* (H / 100 = 3 ticks, so no value lies halfway)
Round2(x) == (H \div 100) * ((2 * x + (H \div 100)) \div (2 * (H \div 100)))

\* floor(a / b) + 1 instead of the ceiling
CeilFloorPlusOne(a, b) == (a \div b) + 1

\* math.ceil(a / b) for a >= 0, b > 0
Ceil(a, b) == (a + b - 1) \div b

\* current_time.date(): the number of the calendar day of a clock value
DateOf(t) == t \div (24 * H)

VARIABLES
    self_current_cycle_used, \* HOSEngine.current_cycle_used
    self_cycle_remaining,    \* HOSEngine.cycle_remaining
    total_miles,             \* argument of calculate_trip (distance units)
    total_driving_hours,
    num_fuel_stops,
    daily_logs,
    remaining_miles,
    remaining_driving_hours,
    miles_since_fuel,
    current_cycle,
    day_number,
    current_time,
    pickup_done,
    dropoff_done,
    day_log,
    max_drive_hours,
    max_on_duty_hours,
    hours_driven_today,
    hours_on_duty_today,
    hours_since_break,
    result,
    pc,
    calls,                   \* calls of calculate_trip made on this engine
    previous_plan            \* the plan the call before this one returned

vars == <<self_current_cycle_used, self_cycle_remaining, total_miles,
          total_driving_hours, num_fuel_stops, daily_logs, remaining_miles,
          remaining_driving_hours, miles_since_fuel, current_cycle, day_number,
          current_time, pickup_done, dropoff_done, day_log, max_drive_hours,
          max_on_duty_hours, hours_driven_today, hours_on_duty_today,
          hours_since_break, result, pc, calls, previous_plan>>

engineVars == <<self_current_cycle_used, self_cycle_remaining>>
tripVars == <<total_miles, total_driving_hours, num_fuel_stops>>
dayVars == <<max_drive_hours, max_on_duty_hours>>
callVars == <<calls, previous_plan>>

\* a restart check that never finds too few hours
TooFewCycleHoursNever(available_cycle_hours) == FALSE

\* a restart threshold of three hours instead of one
TooFewCycleHoursThree(available_cycle_hours) == available_cycle_hours < 3 * H

\* a duty allotment that forgets the cycle hours left
MaxOnDutyHoursNoCycle(available_cycle_hours) == MAX_ON_DUTY_HOURS * H

\* a clock that is not advanced over an OFF entry
ClockAfterBreakStays(entry) ==
    IF entry.status = "OFF" THEN entry.start_time ELSE entry.end_time

\* available_cycle_hours < 1: too few cycle hours left to start a work day
TooFewCycleHours(available_cycle_hours) == available_cycle_hours < 1 * H

\* a day allotment that forgets the daily driving cap
MaxDriveHoursNoCap(remaining, available_cycle_hours) ==
    Min({remaining, available_cycle_hours})

\* max_drive_hours = min(MAX_DRIVING_HOURS, remaining, available)
MaxDriveHours(remaining, available_cycle_hours) ==
    Min({MAX_DRIVING_HOURS * H, remaining, available_cycle_hours})

\* max_on_duty_hours = min(MAX_ON_DUTY_HOURS, available)
MaxOnDutyHours(available_cycle_hours) ==
    Min({MAX_ON_DUTY_HOURS * H, available_cycle_hours})

\* current_time = entry['end_time'] after an entry is appended
ClockAfter(entry) == entry.end_time

\* a log entry whose duration is stored as it is
CreateLogEntryUnrounded(status, start_time, duration, notes) ==
    [status |-> status,
     start_time |-> start_time,
     end_time |-> start_time + duration,
     duration |-> duration,
     notes |-> notes]

\* _create_log_entry: end_time = start_time + duration, duration rounded
CreateLogEntry(status, start_time, duration, notes) ==
    [status |-> status,
     start_time |-> start_time,
     end_time |-> start_time + duration,
     duration |-> Round2(duration),
     notes |-> notes]

\* a restart log whose single entry is a sleeper-berth entry
CreateRestartLogSB(dn, start_time) ==
    [day_number |-> dn,
     date |-> DateOf(start_time),
     start_time |-> start_time,
     end_time |-> start_time + RESTART_OFF_DUTY_HOURS * H,
     log_entries |-> << [status |-> "SB",
                         start_time |-> start_time,
                         end_time |-> start_time + RESTART_OFF_DUTY_HOURS * H,
                         duration |-> RESTART_OFF_DUTY_HOURS * H,
                         notes |-> "34-hour restart (cycle reset)"] >>,
     total_driving_hours |-> 0,
     total_on_duty_hours |-> 0,
     total_off_duty_hours |-> RESTART_OFF_DUTY_HOURS * H,
     remaining_drive_time |-> MAX_DRIVING_HOURS * H,
     remaining_on_duty_time |-> MAX_ON_DUTY_HOURS * H,
     cycle_hours_remaining |-> MAX_CYCLE_HOURS * H,
     is_restart |-> TRUE]

\* _create_restart_log
CreateRestartLog(dn, start_time) ==
    [day_number |-> dn,
     date |-> DateOf(start_time),
     start_time |-> start_time,
     end_time |-> start_time + RESTART_OFF_DUTY_HOURS * H,
     log_entries |-> << [status |-> "OFF",
                         start_time |-> start_time,
                         end_time |-> start_time + RESTART_OFF_DUTY_HOURS * H,
                         duration |-> RESTART_OFF_DUTY_HOURS * H,
                         notes |-> "34-hour restart (cycle reset)"] >>,
     total_driving_hours |-> 0,
     total_on_duty_hours |-> 0,
     total_off_duty_hours |-> RESTART_OFF_DUTY_HOURS * H,
     remaining_drive_time |-> MAX_DRIVING_HOURS * H,
     remaining_on_duty_time |-> MAX_ON_DUTY_HOURS * H,
     cycle_hours_remaining |-> MAX_CYCLE_HOURS * H,
     is_restart |-> TRUE]

\* log.get('is_restart'): work DayLogs carry no is_restart key
IsRestart(log) == "is_restart" \in DOMAIN log /\ log.is_restart

\* the day_log dict before any day is started
NoDayLog ==
    [day_number |-> 0, date |-> 0, start_time |-> 0, log_entries |-> <<>>,
     total_driving_hours |-> 0, total_on_duty_hours |-> 0,
     total_off_duty_hours |-> 0]

\* HOSEngine(current_cycle_used).calculate_trip(total_miles) up to the day loop
Init ==
    \E m \in MilesInputs, c \in CycleInputs :
        /\ self_current_cycle_used = c
        /\ self_cycle_remaining = MAX_CYCLE_HOURS * H - c
        /\ total_miles = m * MileUnits
        /\ total_driving_hours = (m * H) \div AVG_SPEED_MPH
        /\ num_fuel_stops = m \div FUEL_STOP_MILES
        /\ daily_logs = <<>>
        /\ remaining_miles = m * MileUnits
        /\ remaining_driving_hours = (m * H) \div AVG_SPEED_MPH
        /\ miles_since_fuel = 0
        /\ current_cycle = c
        /\ day_number = 1
        /\ current_time = StartHour * H
        /\ pickup_done = FALSE
        /\ dropoff_done = FALSE
        /\ day_log = NoDayLog
        /\ max_drive_hours = 0
        /\ max_on_duty_hours = 0
        /\ hours_driven_today = 0
        /\ hours_on_duty_today = 0
        /\ hours_since_break = 0
        /\ result = [returned |-> FALSE]
        /\ pc = "loop"
        /\ calls = 1
        /\ previous_plan = [returned |-> FALSE]

\* while remaining_driving_hours > 0 or not dropoff_done
OuterCond == remaining_driving_hours > 0 \/ ~dropoff_done

\* a restart that leaves the cycle usage as it is
CycleKeptAfterRestart == current_cycle

\* current_cycle = 0 ("Reset cycle") in the restart branches
CycleAfterRestart == 0

\* a clock that is not advanced over a restart
ClockAfterRestartStays(restart_log) == restart_log.start_time

\* current_time = restart_log['end_time']
ClockAfterRestart(restart_log) == restart_log.end_time

\* the restart branches of the day loop
DoRestart ==
    LET restart_log == CreateRestartLog(day_number, current_time) IN
    /\ daily_logs' = Append(daily_logs, restart_log)
    /\ current_cycle' = CycleAfterRestart
    /\ current_time' = ClockAfterRestart(restart_log)
    /\ day_number' = day_number + 1
    /\ pc' = "loop"
    /\ UNCHANGED <<callVars, engineVars, tripVars, dayVars, remaining_miles,
                   remaining_driving_hours, miles_since_fuel, pickup_done,
                   dropoff_done, day_log, hours_driven_today,
                   hours_on_duty_today, hours_since_break, result>>

\* if current_cycle >= self.MAX_CYCLE_HOURS
RestartCycleUsed ==
    /\ pc = "loop"
    /\ Len(daily_logs) < MaxDays
    /\ OuterCond
    /\ current_cycle >= MAX_CYCLE_HOURS * H
    /\ DoRestart

\* if available_cycle_hours < 1
RestartNoHours ==
    /\ pc = "loop"
    /\ Len(daily_logs) < MaxDays
    /\ OuterCond
    /\ current_cycle < MAX_CYCLE_HOURS * H
    /\ TooFewCycleHours(MAX_CYCLE_HOURS * H - current_cycle)
    /\ DoRestart

\* a pickup that is due on every work day
PickupDueEveryDay == TRUE

\* if not pickup_done
PickupDue == ~pickup_done

\* "Start a new day", the day's allotments and the pickup
StartDay ==
    LET available_cycle_hours == MAX_CYCLE_HOURS * H - current_cycle
        entry == CreateLogEntry("ON", current_time, PICKUP_DURATION,
                                "Pickup - Loading")
    IN
    /\ pc = "loop"
    /\ Len(daily_logs) < MaxDays
    /\ OuterCond
    /\ current_cycle < MAX_CYCLE_HOURS * H
    /\ ~TooFewCycleHours(available_cycle_hours)
    /\ max_drive_hours' = MaxDriveHours(remaining_driving_hours,
                                        available_cycle_hours)
    /\ max_on_duty_hours' = MaxOnDutyHours(available_cycle_hours)
    /\ hours_driven_today' = 0
    /\ hours_since_break' = 0
    /\ IF PickupDue
       THEN /\ day_log' = [day_number |-> day_number,
                           date |-> DateOf(current_time),
                           start_time |-> current_time,
                           log_entries |-> <<entry>>,
                           total_driving_hours |-> 0,
                           total_on_duty_hours |-> 0,
                           total_off_duty_hours |-> 0]
            /\ current_time' = ClockAfter(entry)
            /\ hours_on_duty_today' = PICKUP_DURATION
            /\ pickup_done' = TRUE
       ELSE /\ day_log' = [day_number |-> day_number,
                           date |-> DateOf(current_time),
                           start_time |-> current_time,
                           log_entries |-> <<>>,
                           total_driving_hours |-> 0,
                           total_on_duty_hours |-> 0,
                           total_off_duty_hours |-> 0]
            /\ hours_on_duty_today' = 0
            /\ UNCHANGED <<current_time, pickup_done>>
    /\ pc' = "drive"
    /\ UNCHANGED <<callVars, engineVars, tripVars, daily_logs, remaining_miles,
                   remaining_driving_hours, miles_since_fuel, current_cycle,
                   day_number, dropoff_done, result>>

\* while hours_driven_today < max_drive_hours and
\*       hours_on_duty_today < max_on_duty_hours and remaining_driving_hours > 0
InnerCond ==
    /\ hours_driven_today < max_drive_hours
    /\ hours_on_duty_today < max_on_duty_hours
    /\ remaining_driving_hours > 0

AppendEntry(entry) == [day_log EXCEPT !.log_entries = Append(@, entry)]

\* a break check that waits until more than 8 hours were driven
BreakDueStrict == hours_since_break > REQUIRED_BREAK_AFTER_HOURS * H

\* if hours_since_break >= self.REQUIRED_BREAK_AFTER_HOURS
BreakDue == hours_since_break >= REQUIRED_BREAK_AFTER_HOURS * H

\* "Check if break is needed"
TakeBreak ==
    LET entry == CreateLogEntry("OFF", current_time, REQUIRED_BREAK_DURATION,
                                "30-minute break (8-hour rule)")
    IN
    /\ pc = "drive"
    /\ InnerCond
    /\ BreakDue
    /\ day_log' = AppendEntry(entry)
    /\ current_time' = ClockAfter(entry)
    /\ hours_since_break' = 0
    /\ pc' = "drive"
    /\ UNCHANGED <<callVars, engineVars, tripVars, dayVars, daily_logs, remaining_miles,
                   remaining_driving_hours, miles_since_fuel, current_cycle,
                   day_number, pickup_done, dropoff_done, hours_driven_today,
                   hours_on_duty_today, result>>

\* "Check if fuel stop is needed"
FuelStop ==
    LET entry == CreateLogEntry("ON", current_time, FUEL_STOP_DURATION,
                                "Fuel stop")
    IN
    /\ pc = "drive"
    /\ InnerCond
    /\ ~BreakDue
    /\ miles_since_fuel >= FUEL_STOP_MILES * MileUnits
    /\ remaining_miles > 0
    /\ day_log' = AppendEntry(entry)
    /\ current_time' = ClockAfter(entry)
    /\ hours_on_duty_today' = hours_on_duty_today + FUEL_STOP_DURATION
    /\ miles_since_fuel' = 0
    /\ pc' = "drive"
    /\ UNCHANGED <<callVars, engineVars, tripVars, dayVars, daily_logs, remaining_miles,
                   remaining_driving_hours, current_cycle, day_number,
                   pickup_done, dropoff_done, hours_driven_today,
                   hours_since_break, result>>

\* neither a break nor a fuel stop is due: the driving branch is reached
DrivingBranch ==
    /\ pc = "drive"
    /\ InnerCond
    /\ ~BreakDue
    /\ ~(miles_since_fuel >= FUEL_STOP_MILES * MileUnits /\ remaining_miles > 0)

\* a segment length that forgets hours_until_drive_limit
DriveDurationNoDriveLimit ==
    Min({REQUIRED_BREAK_AFTER_HOURS * H - hours_since_break,
         max_on_duty_hours - hours_on_duty_today,
         remaining_driving_hours,
         MaxSegment})

\* "Calculate driving segment"
DriveDuration ==
    Min({REQUIRED_BREAK_AFTER_HOURS * H - hours_since_break,
         max_drive_hours - hours_driven_today,
         max_on_duty_hours - hours_on_duty_today,
         remaining_driving_hours,
         MaxSegment})

\* if drive_duration < 0.1: break
EpsilonBreak ==
    /\ DrivingBranch
    /\ DriveDuration < Epsilon
    /\ pc' = "endday"
    /\ UNCHANGED <<callVars, engineVars, tripVars, dayVars, daily_logs, remaining_miles,
                   remaining_driving_hours, miles_since_fuel, current_cycle,
                   day_number, current_time, pickup_done, dropoff_done,
                   day_log, hours_driven_today, hours_on_duty_today,
                   hours_since_break, result>>

\* "Create driving entry", and the dropoff after the last bit of driving
Drive ==
    LET drive_duration == DriveDuration
        miles_driven == (drive_duration * AVG_SPEED_MPH * MileUnits) \div H
        entry == CreateLogEntry("D", current_time, drive_duration, "Driving")
        dropoff == CreateLogEntry("ON", ClockAfter(entry), DROPOFF_DURATION,
                                  "Dropoff - Unloading")
    IN
    /\ DrivingBranch
    /\ drive_duration >= Epsilon
    /\ hours_driven_today' = hours_driven_today + drive_duration
    /\ hours_since_break' = hours_since_break + drive_duration
    /\ remaining_driving_hours' = remaining_driving_hours - drive_duration
    /\ remaining_miles' = remaining_miles - miles_driven
    /\ miles_since_fuel' = miles_since_fuel + miles_driven
    /\ IF remaining_driving_hours - drive_duration <= 0 /\ ~dropoff_done
       THEN /\ day_log' = [day_log EXCEPT
                             !.log_entries = Append(Append(@, entry), dropoff)]
            /\ current_time' = ClockAfter(dropoff)
            /\ hours_on_duty_today' =
                   hours_on_duty_today + drive_duration + DROPOFF_DURATION
            /\ dropoff_done' = TRUE
            /\ pc' = "endday"
       ELSE /\ day_log' = AppendEntry(entry)
            /\ current_time' = ClockAfter(entry)
            /\ hours_on_duty_today' = hours_on_duty_today + drive_duration
            /\ UNCHANGED dropoff_done
            /\ pc' = "drive"
    /\ UNCHANGED <<callVars, engineVars, tripVars, dayVars, daily_logs, current_cycle,
                   day_number, pickup_done, result>>

\* the condition of the inner while is false
InnerExit ==
    /\ pc = "drive"
    /\ ~InnerCond
    /\ pc' = "endday"
    /\ UNCHANGED <<callVars, engineVars, tripVars, dayVars, daily_logs, remaining_miles,
                   remaining_driving_hours, miles_since_fuel, current_cycle,
                   day_number, current_time, pickup_done, dropoff_done,
                   day_log, hours_driven_today, hours_on_duty_today,
                   hours_since_break, result>>

\* sum of entry durations over the statuses of a category
RECURSIVE SumDurations(_, _)
SumDurations(entries, statuses) ==
    IF entries = <<>> THEN 0
    ELSE (IF Head(entries).status \in statuses THEN Head(entries).duration ELSE 0)
         + SumDurations(Tail(entries), statuses)

\* a trailing rest appended to every work day
NeedsRestAlways == TRUE

\* if not dropoff_done or day_number < math.ceil(total_driving_hours / 11)
NeedsRest ==
    \/ ~dropoff_done
    \/ day_number < Ceil(total_driving_hours, MAX_DRIVING_HOURS * H)

\* "End of day - 10 hour rest period", the day totals, the cycle update and
\* the "Check if we're done" exit
EndDay ==
    LET needs_rest == NeedsRest
        rest == CreateLogEntry("SB", current_time, RESET_OFF_DUTY_HOURS * H,
                               "10-hour rest period (daily reset)")
        entries == IF needs_rest THEN Append(day_log.log_entries, rest)
                   ELSE day_log.log_entries
        end_time == IF needs_rest THEN ClockAfter(rest) ELSE current_time
        driving == SumDurations(entries, {"D"})
        on_duty == SumDurations(entries, {"D", "ON"})
        off_duty == SumDurations(entries, {"OFF", "SB"})
        new_cycle == current_cycle + on_duty
        finished == [day_number |-> day_log.day_number,
                     date |-> day_log.date,
                     start_time |-> day_log.start_time,
                     log_entries |-> entries,
                     total_driving_hours |-> Round2(driving),
                     total_on_duty_hours |-> Round2(on_duty),
                     total_off_duty_hours |-> Round2(off_duty),
                     remaining_drive_time |->
                         Round2(MAX_DRIVING_HOURS * H - driving),
                     remaining_on_duty_time |->
                         Round2(MAX_ON_DUTY_HOURS * H - on_duty),
                     cycle_hours_remaining |->
                         Round2(MAX_CYCLE_HOURS * H - new_cycle),
                     end_time |-> end_time]
    IN
    /\ pc = "endday"
    /\ day_log' = finished
    /\ current_time' = end_time
    /\ current_cycle' = new_cycle
    /\ daily_logs' = Append(daily_logs, finished)
    /\ day_number' = day_number + 1
    /\ pc' = IF dropoff_done /\ remaining_driving_hours <= 0
             THEN "return" ELSE "loop"
    /\ UNCHANGED <<callVars, engineVars, tripVars, dayVars, remaining_miles,
                   remaining_driving_hours, miles_since_fuel, pickup_done,
                   dropoff_done, hours_driven_today, hours_on_duty_today,
                   hours_since_break, result>>

\* a recomputation that does not reset on restart days
RECURSIVE FinalCycleFromNoReset(_, _)
FinalCycleFromNoReset(total, logs) ==
    IF logs = <<>> THEN total
    ELSE FinalCycleFromNoReset(total + Head(logs).total_on_duty_hours,
                               Tail(logs))

\* _calculate_final_cycle_usage
RECURSIVE FinalCycleFrom(_, _)
FinalCycleFrom(total, logs) ==
    IF logs = <<>> THEN total
    ELSE FinalCycleFrom(IF IsRestart(Head(logs)) THEN 0
                        ELSE total + Head(logs).total_on_duty_hours,
                        Tail(logs))

CalculateFinalCycleUsage(logs) ==
    Round2(FinalCycleFrom(self_current_cycle_used, logs))

\* a restart check whose default for a missing is_restart is True
CheckRestartNeededDefaultTrue(logs) ==
    \E i \in 1..Len(logs) : "is_restart" \notin DOMAIN logs[i] \/ logs[i].is_restart

\* _check_restart_needed
CheckRestartNeeded(logs) == \E i \in 1..Len(logs) : IsRestart(logs[i])

\* the return statement of calculate_trip
Return ==
    /\ pc = "return"
    /\ result' = [returned |-> TRUE,
                  total_miles |-> total_miles,
                  total_driving_hours |-> Round2(total_driving_hours),
                  estimated_days |->
                      Ceil(total_driving_hours, MAX_DRIVING_HOURS * H),
                  actual_days |-> Len(daily_logs),
                  num_fuel_stops |-> num_fuel_stops,
                  daily_logs |-> daily_logs,
                  cycle_used_before |-> self_current_cycle_used,
                  cycle_used_after |-> CalculateFinalCycleUsage(daily_logs),
                  restart_needed |-> CheckRestartNeeded(daily_logs)]
    /\ pc' = "done"
    /\ UNCHANGED <<callVars, engineVars, tripVars, dayVars, daily_logs, remaining_miles,
                   remaining_driving_hours, miles_since_fuel, current_cycle,
                   day_number, current_time, pickup_done, dropoff_done,
                   day_log, hours_driven_today, hours_on_duty_today,
                   hours_since_break>>

Next ==
    \/ RestartCycleUsed
    \/ RestartNoHours
    \/ StartDay
    \/ TakeBreak
    \/ FuelStop
    \/ EpsilonBreak
    \/ Drive
    \/ InnerExit
    \/ EndDay
    \/ Return

Spec == Init /\ [][Next]_vars

\* a running cycle counter that is carried over from the call before
StartCycleCarried == current_cycle

\* current_cycle = self.current_cycle_used
StartCycle == self_current_cycle_used

\* calculate_trip is called again on the same engine, with the same miles
\* and the same starting clock
CallAgain ==
    /\ pc = "done"
    /\ calls < MaxCalls
    /\ calls' = calls + 1
    /\ previous_plan' = result
    /\ total_driving_hours' = ((total_miles \div MileUnits) * H) \div AVG_SPEED_MPH
    /\ num_fuel_stops' = (total_miles \div MileUnits) \div FUEL_STOP_MILES
    /\ daily_logs' = <<>>
    /\ remaining_miles' = total_miles
    /\ remaining_driving_hours' =
           ((total_miles \div MileUnits) * H) \div AVG_SPEED_MPH
    /\ miles_since_fuel' = 0
    /\ current_cycle' = StartCycle
    /\ day_number' = 1
    /\ current_time' = StartHour * H
    /\ pickup_done' = FALSE
    /\ dropoff_done' = FALSE
    /\ day_log' = NoDayLog
    /\ max_drive_hours' = 0
    /\ max_on_duty_hours' = 0
    /\ hours_driven_today' = 0
    /\ hours_on_duty_today' = 0
    /\ hours_since_break' = 0
    /\ result' = [returned |-> FALSE]
    /\ pc' = "loop"
    /\ UNCHANGED <<engineVars, total_miles>>

NextAgain ==
    \/ RestartCycleUsed
    \/ RestartNoHours
    \/ StartDay
    \/ TakeBreak
    \/ FuelStop
    \/ EpsilonBreak
    \/ Drive
    \/ InnerExit
    \/ EndDay
    \/ Return
    \/ CallAgain

\* the engine called up to MaxCalls times
SpecAgain == Init /\ [][NextAgain]_vars

\* ------------------------------------------------------------------ claims
WorkDays == {i \in 1..Len(daily_logs) : ~IsRestart(daily_logs[i])}
RestartDays == {i \in 1..Len(daily_logs) : IsRestart(daily_logs[i])}

HasEntry(log, notes) ==
    \E k \in 1..Len(log.log_entries) : log.log_entries[k].notes = notes

\* C1: calculate_trip terminates; the day loop appends a number of DayLogs
\* bounded in proportion to the total driving hours (three DayLogs per
\* eleven hours of driving, and three more, is a generous budget: every run
\* that returns stays within it).
DayBudget == 3 * Ceil(total_driving_hours, MAX_DRIVING_HOURS * H) + 3
C1_DayLoopBounded == Len(daily_logs) <= DayBudget

\* C2: no DayLog, work day or restart day, reports more than 11 hours of
\* driving.
C2_DrivingWithinCap ==
    \A i \in 1..Len(daily_logs) :
        daily_logs[i].total_driving_hours <= MAX_DRIVING_HOURS * H

\* a plan with a restart day and a work day that drove the full 11 hours
C2_Witness ==
    /\ RestartDays # {}
    /\ \E i \in WorkDays :
           daily_logs[i].total_driving_hours = MAX_DRIVING_HOURS * H

\* C3: no DayLog reports more than 14 on-duty hours, although fuel stops and
\* the dropoff are appended without looking at the remaining duty allotment.
C3_OnDutyWithinWindow ==
    \A i \in 1..Len(daily_logs) :
        daily_logs[i].total_on_duty_hours <= MAX_ON_DUTY_HOURS * H

\* a work day with the pickup, 11 hours of driving and the dropoff (13
\* on-duty hours), or a full driving day with a fuel stop; and a work day
\* whose dropoff took it past the cycle hours it had left
C3_Witness ==
    /\ \E i \in WorkDays :
           \/ /\ daily_logs[i].total_driving_hours = MAX_DRIVING_HOURS * H
              /\ HasEntry(daily_logs[i], "Fuel stop")
           \/ daily_logs[i].total_on_duty_hours =
                  PICKUP_DURATION + MAX_DRIVING_HOURS * H + DROPOFF_DURATION
    /\ \E i \in WorkDays :
           /\ HasEntry(daily_logs[i], "Dropoff - Unloading")
           /\ daily_logs[i].cycle_hours_remaining < 0

\* C4: whenever a restart day is triggered the cumulative cycle usage is at
\* most 70 hours.
C4_RestartWithinCycleCap ==
    [][(RestartCycleUsed \/ RestartNoHours)
         => current_cycle <= MAX_CYCLE_HOURS * H]_vars

\* the segments of a sequence of DayLogs, in emission order
RECURSIVE Flatten(_)
Flatten(logs) ==
    IF logs = <<>> THEN <<>>
    ELSE Head(logs).log_entries \o Flatten(Tail(logs))

Indices(es, notes) == {k \in 1..Len(es) : es[k].notes = notes}
DrivingIndices(es) == {k \in 1..Len(es) : es[k].status = "D"}

\* C5: a returned plan has exactly one pickup and exactly one dropoff, both
\* ON, the pickup before the dropoff, and the dropoff is the segment right
\* after the last driving segment and starts when that segment ends.
C5_OnePickupOneDropoff ==
    pc = "done" =>
        LET es == Flatten(result.daily_logs)
            P == Indices(es, "Pickup - Loading")
            D == Indices(es, "Dropoff - Unloading")
        IN
        /\ Cardinality(P) = 1
        /\ Cardinality(D) = 1
        /\ \A p \in P, d \in D :
               /\ es[p].status = "ON"
               /\ es[d].status = "ON"
               /\ p < d
               /\ d - 1 \in DrivingIndices(es)
               /\ \A k \in DrivingIndices(es) : k < d
               /\ es[d].start_time = es[d - 1].end_time

\* a returned plan of several work days around a restart day
C5_Witness ==
    /\ pc = "done"
    /\ \E i \in RestartDays : 1 < i /\ i < Len(daily_logs)
    /\ Cardinality(WorkDays) >= 3

\* C6 as stated: the pickup is in the DayLog numbered 1 and no driving
\* segment comes before it.
C6_PickupOnDayOne ==
    \A i \in 1..Len(daily_logs) :
        HasEntry(daily_logs[i], "Pickup - Loading") =>
            /\ daily_logs[i].day_number = 1
            /\ \A p \in Indices(Flatten(daily_logs), "Pickup - Loading") :
                   \A k \in DrivingIndices(Flatten(daily_logs)) : p < k

\* C6 amended: the pickup is the first segment of the first work DayLog and
\* of no other; that DayLog is number 1 when the starting cycle usage leaves
\* at least one hour (current_cycle_used <= 69), and number 2, after a single
\* restart day, otherwise; no driving segment comes before the pickup.
FirstWorkDay ==
    IF self_current_cycle_used > (MAX_CYCLE_HOURS - 1) * H THEN 2 ELSE 1

C6_PickupOnFirstWorkDay ==
    /\ \A i \in 1..Len(daily_logs) :
           /\ daily_logs[i].day_number = i
           /\ i < FirstWorkDay => IsRestart(daily_logs[i])
           /\ i = FirstWorkDay =>
                  /\ ~IsRestart(daily_logs[i])
                  /\ Indices(daily_logs[i].log_entries, "Pickup - Loading") = {1}
           /\ i > FirstWorkDay => ~HasEntry(daily_logs[i], "Pickup - Loading")
    /\ \A p \in Indices(Flatten(daily_logs), "Pickup - Loading") :
           \A k \in DrivingIndices(Flatten(daily_logs)) : p < k

\* the pickup on day 2, after a restart day, with driving after it
C6_Witness ==
    /\ Len(daily_logs) >= 2
    /\ IsRestart(daily_logs[1])
    /\ HasEntry(daily_logs[2], "Pickup - Loading")
    /\ DrivingIndices(daily_logs[2].log_entries) # {}

\* C7: in every work DayLog the segments are contiguous: each ends after it
\* starts, each starts when the one before it ends, the first starts at the
\* day's start and the last ends at the day's end.
C7_SegmentsContiguous ==
    \A i \in WorkDays :
        LET es == daily_logs[i].log_entries IN
        /\ es # <<>>
        /\ es[1].start_time = daily_logs[i].start_time
        /\ es[Len(es)].end_time = daily_logs[i].end_time
        /\ \A k \in 1..Len(es) :
               /\ es[k].end_time > es[k].start_time
               /\ k < Len(es) => es[k].end_time = es[k + 1].start_time

\* a work day with driving, a break, a fuel stop and the trailing rest, in a
\* plan that also holds the pickup and the dropoff
C7_Witness ==
    /\ pc = "done"
    /\ \E i \in WorkDays :
           /\ HasEntry(daily_logs[i], "30-minute break (8-hour rule)")
           /\ HasEntry(daily_logs[i], "Fuel stop")
           /\ HasEntry(daily_logs[i], "10-hour rest period (daily reset)")

\* C8: every restart sets the cumulative cycle usage to 0 and no other step
\* lowers it; the first work day after a restart reports 70 hours minus its
\* own on-duty total as cycle_hours_remaining, and from one work day to the
\* next (no restart between) the usage does not decrease.
C8_CycleResetOnlyByRestart ==
    /\ [](\A i \in WorkDays :
            /\ (i > 1 /\ IsRestart(daily_logs[i - 1])) =>
                   daily_logs[i].cycle_hours_remaining =
                       MAX_CYCLE_HOURS * H - daily_logs[i].total_on_duty_hours
            /\ (i > 1 /\ ~IsRestart(daily_logs[i - 1])) =>
                   daily_logs[i].cycle_hours_remaining
                       <= daily_logs[i - 1].cycle_hours_remaining)
    /\ [][IF RestartCycleUsed \/ RestartNoHours
          THEN current_cycle' = 0
          ELSE current_cycle' >= current_cycle]_vars

\* a restart day after a work day, followed by two work days
C8_Witness ==
    \E i \in RestartDays :
        /\ i > 1
        /\ i + 2 <= Len(daily_logs)
        /\ ~IsRestart(daily_logs[i + 1])
        /\ ~IsRestart(daily_logs[i + 2])
        /\ daily_logs[i + 2].total_on_duty_hours > 0

\* the clock value at which DayLog i was started
ClockBefore(i) ==
    IF i = 1 THEN StartHour * H ELSE daily_logs[i - 1].end_time

\* C9: a restart DayLog has exactly one segment, OFF, of 34 hours, starting
\* at the current clock, is_restart true, no driving and no on-duty hours and
\* 34 off-duty hours; a work DayLog has no is_restart.
C9_RestartDayShape ==
    \A i \in 1..Len(daily_logs) :
        LET log == daily_logs[i] IN
        /\ IsRestart(log) =>
               /\ Len(log.log_entries) = 1
               /\ log.log_entries[1].status = "OFF"
               /\ log.log_entries[1].duration = RESTART_OFF_DUTY_HOURS * H
               /\ log.log_entries[1].start_time = ClockBefore(i)
               /\ log.log_entries[1].end_time =
                      ClockBefore(i) + RESTART_OFF_DUTY_HOURS * H
               /\ log.total_driving_hours = 0
               /\ log.total_on_duty_hours = 0
               /\ log.total_off_duty_hours = RESTART_OFF_DUTY_HOURS * H
        /\ (\E k \in 1..Len(log.log_entries) :
                log.log_entries[k].status \in {"ON", "D", "SB"}) =>
               "is_restart" \notin DOMAIN log

\* a restart day between two work days
C9_Witness ==
    \E i \in RestartDays :
        /\ i > 1
        /\ i < Len(daily_logs)
        /\ ~IsRestart(daily_logs[i - 1])
        /\ ~IsRestart(daily_logs[i + 1])

\* the inputs of Scenario C
ScenarioC ==
    /\ self_current_cycle_used = 68 * H
    /\ total_miles = 100 * MileUnits

\* C10 as stated: with 68 hours used and 100 miles the first DayLog is a
\* restart day.
C10_RestartFirst ==
    (ScenarioC /\ Len(daily_logs) >= 1) => IsRestart(daily_logs[1])

\* C10 amended: with 68 hours used and 100 miles the first DayLog is a work
\* day (pickup, one hour of driving, rest; 2 on-duty hours, which bring the
\* cycle to 70), the second DayLog is the restart day, and the cycle is 0
\* when the second work day, the third and last DayLog with the rest of the
\* driving and the dropoff, is built.
C10_WorkDayThenRestart ==
    ScenarioC =>
        /\ Len(daily_logs) <= 3
        /\ Len(daily_logs) >= 1 =>
               /\ ~IsRestart(daily_logs[1])
               /\ Indices(daily_logs[1].log_entries, "Pickup - Loading") = {1}
               /\ daily_logs[1].total_driving_hours = 1 * H
               /\ daily_logs[1].total_on_duty_hours = 2 * H
               /\ daily_logs[1].cycle_hours_remaining = 0
        /\ Len(daily_logs) >= 2 => IsRestart(daily_logs[2])
        /\ (Len(daily_logs) = 2 /\ pc \in {"drive", "endday"}) =>
               current_cycle = 0
        /\ Len(daily_logs) >= 3 =>
               /\ ~IsRestart(daily_logs[3])
               /\ HasEntry(daily_logs[3], "Dropoff - Unloading")
               /\ daily_logs[3].cycle_hours_remaining =
                      MAX_CYCLE_HOURS * H - daily_logs[3].total_on_duty_hours

\* the plan of Scenario C is returned, with its three DayLogs
C10_Witness ==
    /\ ScenarioC
    /\ pc = "done"
    /\ Len(daily_logs) = 3
    /\ IsRestart(daily_logs[2])

\* the inputs of Scenario D
ScenarioD ==
    /\ self_current_cycle_used = 0
    /\ total_miles = 0

\* C11: with no miles to drive (and no cycle hours used) the plan's day 1
\* holds the pickup followed by the dropoff, no driving and no fuel stop, and
\* the plan has no restart day.
C11_ZeroMilesPlan ==
    (ScenarioD /\ Len(daily_logs) >= 1) =>
        /\ \E p \in Indices(daily_logs[1].log_entries, "Pickup - Loading") :
               \E d \in Indices(daily_logs[1].log_entries,
                                "Dropoff - Unloading") : p < d
        /\ daily_logs[1].total_driving_hours = 0
        /\ ~HasEntry(daily_logs[1], "Fuel stop")
        /\ RestartDays = {}

\* the inputs of Scenario B
ScenarioB ==
    /\ self_current_cycle_used = 0
    /\ total_miles = 2000 * MileUnits

\* C12: 2000 miles from an unused cycle: 33.33 driving hours over more than
\* one work day, at least one 30-minute break, num_fuel_stops = 2 reported,
\* restart_needed false and the cycle usage under 70 hours throughout.
C12_ScenarioB ==
    ScenarioB =>
        /\ current_cycle < MAX_CYCLE_HOURS * H
        /\ RestartDays = {}
        /\ pc = "done" =>
               /\ result.total_driving_hours = (3333 * H) \div 100
               /\ Cardinality({i \in WorkDays :
                       daily_logs[i].total_driving_hours > 0}) > 1
               /\ \E i \in WorkDays :
                      \E k \in Indices(daily_logs[i].log_entries,
                                       "30-minute break (8-hour rule)") :
                          /\ daily_logs[i].log_entries[k].status = "OFF"
                          /\ daily_logs[i].log_entries[k].duration = H \div 2
               /\ result.num_fuel_stops = 2
               /\ result.restart_needed = FALSE
               /\ result.cycle_used_after < MAX_CYCLE_HOURS * H

\* the plan of Scenario B is returned
C12_Witness ==
    /\ ScenarioB
    /\ pc = "done"
    /\ Len(result.daily_logs) = 4

\* the inputs of Scenario A
ScenarioA ==
    /\ self_current_cycle_used = 0
    /\ total_miles = 300 * MileUnits

\* C13: 300 miles from an unused cycle: 5.0 driving hours in one work day
\* made of the pickup, driving segments and the dropoff; no restart day, no
\* break and no trailing rest; actual_days = 1.
C13_ScenarioA ==
    ScenarioA =>
        /\ Len(daily_logs) <= 1
        /\ RestartDays = {}
        /\ pc = "done" =>
               LET es == daily_logs[1].log_entries IN
               /\ result.total_driving_hours = 5 * H
               /\ result.actual_days = 1
               /\ daily_logs[1].total_driving_hours = 5 * H
               /\ Len(es) >= 3
               /\ es[1].notes = "Pickup - Loading"
               /\ es[Len(es)].notes = "Dropoff - Unloading"
               /\ \A k \in 2..(Len(es) - 1) : es[k].status = "D"
               /\ \A k \in 1..Len(es) : es[k].status \in {"ON", "D"}

\* the plan of Scenario A is returned
C13_Witness ==
    /\ ScenarioA
    /\ pc = "done"
    /\ result.daily_logs = daily_logs

\* C14: a driving duration under 0.1 hour on a day that has not driven yet
\* aborts the computation; the day is not closed and the loop does not go on.
C14_CollapseIsFatal ==
    [][(DrivingBranch /\ DriveDuration < H \div 10 /\ hours_driven_today = 0)
         => pc' # "endday"]_vars

\* C15 as stated: cycle_used_after equals the running cycle counter at the
\* exit of the day loop.
C15_FinalCycleExact ==
    pc = "done" => result.cycle_used_after = current_cycle

\* C15 amended: cycle_used_after equals the running cycle counter at the exit
\* of the day loop rounded to two decimals.
C15_FinalCycleRounded ==
    pc = "done" =>
        result.cycle_used_after
            = (H \div 100) * ((2 * current_cycle + (H \div 100))
                              \div (2 * (H \div 100)))

\* a returned plan with work days before and after a restart day
C15_Witness ==
    /\ pc = "done"
    /\ current_cycle > 0
    /\ \E i \in RestartDays : 1 < i /\ i < Len(result.daily_logs)

\* C16: at the head of the day loop a restart day is emitted exactly when 70
\* hours or more are used or less than one hour is left, and then no work
\* day is started; otherwise a work day is started, and exactly one work
\* DayLog is appended when it ends.  No restart day is appended from
\* anywhere else.
C16_RestartOnlyAtDayStart ==
    [][LET restart_due ==
               \/ current_cycle >= MAX_CYCLE_HOURS * H
               \/ MAX_CYCLE_HOURS * H - current_cycle < 1 * H
           n == Len(daily_logs)
       IN
       /\ pc = "loop" =>
              IF restart_due
              THEN /\ Len(daily_logs') = n + 1
                   /\ IsRestart(daily_logs'[n + 1])
                   /\ pc' = "loop"
              ELSE /\ daily_logs' = daily_logs
                   /\ pc' = "drive"
       /\ pc = "drive" => daily_logs' = daily_logs
       /\ pc = "endday" =>
              /\ Len(daily_logs') = n + 1
              /\ ~IsRestart(daily_logs'[n + 1])]_vars

\* a work day is being built right after a restart day that followed a work
\* day
C16_Witness ==
    /\ pc = "drive"
    /\ Len(daily_logs) >= 2
    /\ IsRestart(daily_logs[Len(daily_logs)])
    /\ ~IsRestart(daily_logs[Len(daily_logs) - 1])

RestEntries(log) == Indices(log.log_entries, "10-hour rest period (daily reset)")

\* C17: every work day that is not the last DayLog of the plan ends with its
\* only SB segment, of 10 hours; the last DayLog of a returned plan is a work
\* day without an SB segment whose last segment is the dropoff.
C17_RestExceptLastDay ==
    LET n == Len(daily_logs) IN
    /\ \A i \in WorkDays :
           (i < n \/ pc \notin {"return", "done"}) =>
               LET es == daily_logs[i].log_entries IN
               /\ {k \in 1..Len(es) : es[k].status = "SB"} = {Len(es)}
               /\ RestEntries(daily_logs[i]) = {Len(es)}
               /\ es[Len(es)].end_time - es[Len(es)].start_time
                      = RESET_OFF_DUTY_HOURS * H
    /\ pc = "done" =>
           LET es == result.daily_logs[n].log_entries IN
           /\ ~IsRestart(result.daily_logs[n])
           /\ \A k \in 1..Len(es) : es[k].status # "SB"
           /\ es[Len(es)].notes = "Dropoff - Unloading"

\* a returned plan of at least three work days and no restart day, and one
\* whose driving is a whole number of 11-hour days
C17_Witness ==
    /\ pc = "done"
    /\ RestartDays = {}
    /\ \/ Len(daily_logs) >= 3
       \/ total_driving_hours = MAX_DRIVING_HOURS * H

\* the driving between breaks stays within a limit: run is the driving since
\* the day started or since the last break
RECURSIVE DrivingRunsWithin(_, _, _)
DrivingRunsWithin(entries, run, limit) ==
    IF entries = <<>> THEN TRUE
    ELSE LET e == Head(entries) IN
         IF e.status = "D"
         THEN /\ run + (e.end_time - e.start_time) <= limit
              /\ DrivingRunsWithin(Tail(entries),
                                   run + (e.end_time - e.start_time), limit)
         ELSE IF e.notes = "30-minute break (8-hour rule)"
         THEN DrivingRunsWithin(Tail(entries), 0, limit)
         ELSE DrivingRunsWithin(Tail(entries), run, limit)

\* C18: once 8 hours were driven since the day started or since the last
\* break and the day's loop goes on, the next segment is a 0.5-hour OFF
\* break, before any fuel stop or driving; the driving between breaks never
\* exceeds 8 hours.
C18_BreakAfterEightHours ==
    /\ [](/\ hours_since_break <= REQUIRED_BREAK_AFTER_HOURS * H
          /\ DrivingRunsWithin(day_log.log_entries, 0,
                               REQUIRED_BREAK_AFTER_HOURS * H)
          /\ \A i \in WorkDays :
                 DrivingRunsWithin(daily_logs[i].log_entries, 0,
                                   REQUIRED_BREAK_AFTER_HOURS * H))
    /\ [][(/\ pc = "drive"
           /\ InnerCond
           /\ hours_since_break >= REQUIRED_BREAK_AFTER_HOURS * H) =>
             LET n == Len(day_log.log_entries) IN
             /\ Len(day_log'.log_entries) = n + 1
             /\ day_log'.log_entries[n + 1].status = "OFF"
             /\ day_log'.log_entries[n + 1].end_time
                    - day_log'.log_entries[n + 1].start_time = H \div 2
             /\ hours_since_break' = 0
             /\ pc' = "drive"]_vars

\* a break and a fuel stop are both due while the day's loop goes on
C18_Witness ==
    /\ pc = "drive"
    /\ InnerCond
    /\ hours_since_break >= REQUIRED_BREAK_AFTER_HOURS * H
    /\ miles_since_fuel >= FUEL_STOP_MILES * MileUnits
    /\ remaining_miles > 0

\* C19: a driving segment lasts min(hours to the next break, hours left of
\* today's driving allotment, hours left of today's duty allotment, driving
\* hours left of the trip, 2.0), computed when it is created, which is at
\* least 0.1 and at most 2 hours; under 0.1 hour no segment is created and
\* the day's loop ends.
C19_DrivingSegmentLength ==
    /\ [](\A i \in WorkDays :
            \A k \in DrivingIndices(daily_logs[i].log_entries) :
                LET e == daily_logs[i].log_entries[k] IN
                /\ e.end_time - e.start_time >= H \div 10
                /\ e.end_time - e.start_time <= 2 * H)
    /\ [][DrivingBranch =>
            LET d == Min({REQUIRED_BREAK_AFTER_HOURS * H - hours_since_break,
                          max_drive_hours - hours_driven_today,
                          max_on_duty_hours - hours_on_duty_today,
                          remaining_driving_hours,
                          2 * H})
                n == Len(day_log.log_entries)
            IN
            IF d < H \div 10
            THEN /\ day_log' = day_log
                 /\ pc' = "endday"
            ELSE /\ Len(day_log'.log_entries) > n
                 /\ day_log'.log_entries[n + 1].status = "D"
                 /\ day_log'.log_entries[n + 1].start_time = current_time
                 /\ day_log'.log_entries[n + 1].end_time = current_time + d]_vars

\* a work day with a full 2-hour segment and a last segment cut short
C19_Witness ==
    \E i \in WorkDays :
        LET es == daily_logs[i].log_entries IN
        /\ \E k \in DrivingIndices(es) : es[k].end_time - es[k].start_time = 2 * H
        /\ \E k \in DrivingIndices(es) : es[k].end_time - es[k].start_time < H

\* C20: a work day's on-duty hours stay within its allotment
\* max_on_duty_hours = min(14, 70 - cycle usage at the start of the day), so
\* no DayLog has a negative cycle_hours_remaining and cycle_used_after is at
\* most 70.
C20_OnDutyWithinAllotment ==
    /\ pc = "endday" => hours_on_duty_today <= max_on_duty_hours
    /\ \A i \in 1..Len(daily_logs) : daily_logs[i].cycle_hours_remaining >= 0
    /\ pc = "done" => result.cycle_used_after <= MAX_CYCLE_HOURS * H

\* the Fuel stop segments of a sequence of DayLogs
FuelStopCount(logs) == Cardinality(Indices(Flatten(logs), "Fuel stop"))

\* C21: in a returned plan the number of fuel-stop segments present in the
\* DayLogs equals the reported num_fuel_stops = floor(total_miles / 1000).
C21_FuelStopsAsReported ==
    pc = "done" =>
        /\ result.num_fuel_stops = (total_miles \div MileUnits) \div FUEL_STOP_MILES
        /\ FuelStopCount(result.daily_logs) = result.num_fuel_stops

\* sum of a field over a sequence of DayLogs
RECURSIVE SumDriving(_)
SumDriving(logs) ==
    IF logs = <<>> THEN 0
    ELSE Head(logs).total_driving_hours + SumDriving(Tail(logs))

\* sum of the lengths end_time - start_time of the driving segments
RECURSIVE DrivenTime(_)
DrivenTime(entries) ==
    IF entries = <<>> THEN 0
    ELSE (IF Head(entries).status = "D"
          THEN Head(entries).end_time - Head(entries).start_time ELSE 0)
         + DrivenTime(Tail(entries))

\* sum of the duration fields of the segments of a set of statuses
RECURSIVE DurationSum(_, _)
DurationSum(entries, statuses) ==
    IF entries = <<>> THEN 0
    ELSE (IF Head(entries).status \in statuses THEN Head(entries).duration ELSE 0)
         + DurationSum(Tail(entries), statuses)

\* each DayLog's three totals are the sums of its segments' durations
DayTotalsAreSums ==
    \A i \in 1..Len(daily_logs) :
        LET log == daily_logs[i] IN
        /\ log.total_driving_hours = DurationSum(log.log_entries, {"D"})
        /\ log.total_on_duty_hours = DurationSum(log.log_entries, {"D", "ON"})
        /\ log.total_off_duty_hours = DurationSum(log.log_entries, {"OFF", "SB"})

\* C22 as stated: the trip-level total_driving_hours equals the sum of the
\* DayLogs' total_driving_hours, and each DayLog's driving, on-duty and
\* off-duty totals are the sums of its segments' durations over {D}, {D, ON}
\* and {OFF, SB}.
C22_TotalsAddUp ==
    /\ DayTotalsAreSums
    /\ pc = "done" =>
           result.total_driving_hours = SumDriving(result.daily_logs)

\* C22 amended: each DayLog's totals are the sums of its segments' durations;
\* in a returned plan the driving segments' lengths add up to exactly
\* total_miles / 60, and the reported trip-level total_driving_hours (that
\* value rounded to two decimals) is within 0.01 hour of the sum of the
\* DayLogs' total_driving_hours, and equal to it when current_cycle_used is a
\* whole number of hundredths of an hour.
C22_TotalsAddUpRounded ==
    /\ DayTotalsAreSums
    /\ pc = "done" =>
           LET reported == result.total_driving_hours
               summed == SumDriving(result.daily_logs)
               exact == (total_miles * H) \div (AVG_SPEED_MPH * MileUnits)
               cent == H \div 100
           IN
           /\ DrivenTime(Flatten(result.daily_logs)) = exact
           /\ reported = cent * ((2 * exact + cent) \div (2 * cent))
           /\ reported - summed \in {0 - cent, 0, cent}
           /\ self_current_cycle_used % cent = 0 => reported = summed

\* a returned plan, with a restart day between driving days, whose reported
\* total is not the sum of its days' totals
C22_Witness ==
    /\ pc = "done"
    /\ \E i \in RestartDays : 1 < i /\ i < Len(result.daily_logs)
    /\ result.total_driving_hours # SumDriving(result.daily_logs)
    /\ DayTotalsAreSums

\* C23: the calendar dates of the DayLogs of a plan are strictly increasing;
\* no two DayLogs, work or restart, carry the same date.
C23_DatesIncrease ==
    pc = "done" =>
        \A i \in 1..Len(result.daily_logs) : \A j \in 1..Len(result.daily_logs) :
            i < j => result.daily_logs[i].date < result.daily_logs[j].date

\* C24: DayLogs are numbered 1, 2, 3, ... in the order they are emitted,
\* restart days included, and actual_days is the last day_number; the first
\* segment of each DayLog after the first starts exactly when the last
\* segment of the DayLog before it ends, and the DayLog's own start_time and
\* end_time are those of its first and last segment.
C24_DaysNumberedClockContinuous ==
    /\ \A i \in 1..Len(daily_logs) :
           LET log == daily_logs[i]
               es == log.log_entries
           IN
           /\ log.day_number = i
           /\ es # <<>>
           /\ es[1].start_time = log.start_time
           /\ es[Len(es)].end_time = log.end_time
           /\ i > 1 =>
                  LET ps == daily_logs[i - 1].log_entries IN
                  es[1].start_time = ps[Len(ps)].end_time
    /\ day_number = Len(daily_logs) + 1
    /\ pc = "done" =>
           /\ result.actual_days = Len(result.daily_logs)
           /\ result.actual_days
                  = result.daily_logs[Len(result.daily_logs)].day_number

\* a returned plan in which a restart day follows a work day and is followed
\* by at least two more work days
C24_Witness ==
    /\ pc = "done"
    /\ \E i \in RestartDays :
           /\ i > 1
           /\ i + 2 <= result.actual_days
           /\ ~IsRestart(daily_logs[i - 1])
           /\ ~IsRestart(daily_logs[i + 1])

\* C25: calculate_trip leaves the engine's fields as the constructor set
\* them (current_cycle_used, and cycle_remaining = 70 - current_cycle_used),
\* cycle_used_before is the constructor's argument, and a second call on the
\* same engine with the same miles and starting clock returns the same plan.
C25_EngineUnchanged ==
    /\ [][/\ self_current_cycle_used' = self_current_cycle_used
          /\ self_cycle_remaining' = self_cycle_remaining]_vars
    /\ [](/\ self_cycle_remaining
                 = MAX_CYCLE_HOURS * H - self_current_cycle_used
          /\ pc = "done" =>
                 result.cycle_used_before = self_current_cycle_used
          /\ (pc = "done" /\ calls > 1) => result = previous_plan)

\* a second call has returned a plan with a restart day, its running cycle
\* counter ending away from the engine's current_cycle_used
C25_Witness ==
    /\ pc = "done"
    /\ calls = MaxCalls
    /\ previous_plan.returned
    /\ result.restart_needed
    /\ current_cycle # self_current_cycle_used

====
